---- MODULE Spec2Model ----
(***************************************************************************)
(* Cascading multi-tier query resolution of the academic research copilot  *)
(* (src/src/knowledge_base/queries.py).                                    *)
(*                                                                         *)
(* Text is a sequence of one-character strings, so that lower-casing,      *)
(* substring tests, quote escaping and SQL LIKE matching are computed      *)
(* character by character.  Relevance scores and distances are fixed-point *)
(* numbers in units of 1/ScoreUnit (0.75 is 150, 0.05 is 10); the modelled *)
(* distances are even numbers of units so that distance / 2 is exact.      *)
(***************************************************************************)
EXTENDS Integers, Sequences, FiniteSets, TLC

(***************************************************************************)
(* Bounds of the model.                                                    *)
(***************************************************************************)
\* largest number of rows held by the knowledge base and by the store
MaxRows == 3
\* plain search is requested with limit in 1..MaxLimit
MaxLimit == 6
\* distances run from MaxOver hundredths below 0 to MaxOver hundredths above 2
MaxOver == 3
\* a large backend holds up to MaxExtra rows more than the cap of 50
MaxExtra == 2

(***************************************************************************)
(* Fixed-point scale and program constants.                                *)
(***************************************************************************)
ScoreUnit == 200
\* 0.75, the score of the text-search fallback of _query_papers_sync
LexicalScore == 150
\* 0.85, the score of the DuckDB fallback of _hybrid_search_sync
HybridLexicalScore == 170
\* 0.95 and 0.05 of the sample data
SampleBase == 190
SampleStep == 10
\* range(1, min(limit + 1, 6))
SampleStop == 6
\* LIMIT 50 of semantic and hybrid search, and _query_papers_sync(query, 50)
InternalCap == 50

(***************************************************************************)
(* Text helpers.                                                           *)
(***************************************************************************)
Min(a, b) == IF a <= b THEN a ELSE b
Max(a, b) == IF a >= b THEN a ELSE b

Uppers == <<"A", "B", "C", "D", "E", "F", "G", "H", "I", "J", "K", "L", "M",
            "N", "O", "P", "Q", "R", "S", "T", "U", "V", "W", "X", "Y", "Z">>
Lowers == <<"a", "b", "c", "d", "e", "f", "g", "h", "i", "j", "k", "l", "m",
            "n", "o", "p", "q", "r", "s", "t", "u", "v", "w", "x", "y", "z">>

\* str.lower() and SQL LOWER() on one character
LowerChar(c) ==
    IF \E i \in 1..26 : Uppers[i] = c
    THEN Lowers[CHOOSE i \in 1..26 : Uppers[i] = c]
    ELSE c

\* str.lower() / LOWER(): every character lower-cased
Lower(s) == [i \in 1..Len(s) |-> LowerChar(s[i])]

\* Python "sub in s": sub occurs as a contiguous substring of s
Contains(sub, s) ==
    \E k \in 0..(Len(s) - Len(sub)) :
        \A i \in 1..Len(sub) : s[k + i] = sub[i]

\* str.startswith
StartsWith(s, prefix) ==
    /\ Len(prefix) <= Len(s)
    /\ \A i \in 1..Len(prefix) : s[i] = prefix[i]

\* s[:n]
Prefix(s, n) == SubSeq(s, 1, Min(n, Len(s)))

\* str.replace("'", "''")
RECURSIVE EscapeQuotes(_)
EscapeQuotes(s) ==
    IF s = <<>> THEN <<>>
    ELSE IF Head(s) = "'" THEN <<"'", "'">> \o EscapeQuotes(Tail(s))
    ELSE <<Head(s)>> \o EscapeQuotes(Tail(s))

\* The value the SQL engine reads from the body of a quoted literal: a
\* doubled quote is one quote; a lone quote ends the literal (the statement
\* is then malformed, reported as "bad").
RECURSIVE SqlLiteralValue(_)
SqlLiteralValue(body) ==
    IF body = <<>> THEN [bad |-> FALSE, v |-> <<>>]
    ELSE IF Head(body) = "'"
         THEN IF Len(body) >= 2 /\ body[2] = "'"
              THEN LET r == SqlLiteralValue(Tail(Tail(body)))
                   IN  [bad |-> r.bad, v |-> <<"'">> \o r.v]
              ELSE [bad |-> TRUE, v |-> <<>>]
         ELSE LET r == SqlLiteralValue(Tail(body))
              IN  [bad |-> r.bad, v |-> <<Head(body)>> \o r.v]

\* SQL LIKE: % matches any run of characters, _ exactly one character
RECURSIVE Like(_, _)
Like(s, p) ==
    IF p = <<>> THEN s = <<>>
    ELSE IF Head(p) = "%"
         THEN Like(s, Tail(p)) \/ (s # <<>> /\ Like(Tail(s), p))
    ELSE IF s = <<>> THEN FALSE
    ELSE (Head(p) = "_" \/ Head(p) = Head(s)) /\ Like(Tail(s), Tail(p))

\* LOWER(col) LIKE LOWER('%<escaped text>%')
SqlContainsLike(col, text) ==
    LET lit == SqlLiteralValue(<<"%">> \o EscapeQuotes(text) \o <<"%">>)
    IN  ~lit.bad /\ Like(Lower(col), Lower(lit.v))

Digits == <<"0", "1", "2", "3", "4", "5", "6", "7", "8", "9">>
IsDigit(c) == \E i \in 1..10 : Digits[i] = c
DigitValue(c) == (CHOOSE i \in 1..10 : Digits[i] = c) - 1
DigitChar(n) == Digits[n + 1]

\* str(i) of a non-negative integer
RECURSIVE IntToStr(_)
IntToStr(n) ==
    IF n < 10 THEN <<DigitChar(n)>>
    ELSE IntToStr(n \div 10) \o <<DigitChar(n % 10)>>

\* int(s) for a text of decimal digits; any other text raises ValueError
\* (the modelled texts carry no sign, blank or underscore, which int() would
\* also accept)
IsInt(s) == s # <<>> /\ \A i \in 1..Len(s) : IsDigit(s[i])
RECURSIVE ParseInt(_)
ParseInt(s) ==
    IF s = <<>> THEN 0
    ELSE 10 * ParseInt(SubSeq(s, 1, Len(s) - 1)) + DigitValue(s[Len(s)])

Pad2(n) == IF n < 10 THEN <<"0">> \o IntToStr(n) ELSE IntToStr(n)
Pad4(n) ==
    IF n < 10 THEN <<"0", "0", "0">> \o IntToStr(n)
    ELSE IF n < 100 THEN <<"0", "0">> \o IntToStr(n)
    ELSE IF n < 1000 THEN <<"0">> \o IntToStr(n)
    ELSE IntToStr(n)

\* str(date(y, m, d))
DateToStr(d) == Pad4(d.y) \o <<"-">> \o Pad2(d.m) \o <<"-">> \o Pad2(d.d)

(***************************************************************************)
(* The two backends.  A text column that may be missing is a record        *)
(* [null, v]; a DATE column of the store is [null, y, m, d].               *)
(***************************************************************************)
NoText == [null |-> TRUE, v |-> <<>>]
Text(s) == [null |-> FALSE, v |-> s]
NoDate == [null |-> TRUE, y |-> 0, m |-> 0, d |-> 0]
Date(y, m, d) == [null |-> FALSE, y |-> y, m |-> m, d |-> d]

\* Rows of the knowledge base academic_kb, in ascending distance.  The
\* backend's own "relevance" column is not derived from "distance".
KbCatalog == <<
    [entry_id |-> <<"p", "1">>, title |-> <<"N", "e", "t", "s">>,
     summary |-> <<"d", "e", "e", "p", " ", "n", "e", "t", "s">>,
     authors |-> <<"A", " ", "S", "m", "i", "t", "h">>,
     published_date |-> Text(<<"2", "0", "2", "1", "-", "0", "5", "-", "0", "1">>),
     pdf_url |-> <<"u", "1">>, categories |-> <<"c", "s", ".", "A", "I">>,
     distance |-> 40, relevance |-> 180],
    [entry_id |-> <<"p", "2">>, title |-> <<"T", "r", "e", "e", "s">>,
     summary |-> <<"o", "'", "n", " ", "t", "r", "e", "e", "s">>,
     authors |-> <<"B", " ", "L", "e", "e">>,
     published_date |-> NoText,
     pdf_url |-> <<"u", "1">>, categories |-> <<"c", "s", ".", "L", "G">>,
     distance |-> 160, relevance |-> 100],
    [entry_id |-> <<"p", "4">>, title |-> <<"O", "l", "d", " ", "N", "e", "t", "s">>,
     summary |-> <<"w", "a", "s", " ", "n", "e", "t", "s">>,
     authors |-> <<"D", " ", "S", "m", "i", "t", "h">>,
     published_date |-> Text(<<"2", "0", "1", "9", "-", "0", "3", "-", "0", "2">>),
     pdf_url |-> <<"u", "1">>, categories |-> <<"c", "s", ".", "A", "I">>,
     distance |-> 280, relevance |-> 130],
    [entry_id |-> <<"p", "3">>, title |-> <<"M", "a", "p", "s">>,
     summary |-> <<"o", "f", " ", "m", "a", "p", "s">>,
     authors |-> <<"C", " ", "W", "u">>,
     published_date |-> Text(<<"n", "/", "a">>),
     pdf_url |-> <<"u", "1">>, categories |-> <<"m", "a", "t", "h">>,
     distance |-> 520, relevance |-> 0] >>

\* Rows of the table papers of the structured store
StoreCatalog == <<
    [entry_id |-> <<"p", "1">>, title |-> <<"N", "e", "t", "s">>,
     summary |-> <<"d", "e", "e", "p", " ", "n", "e", "t", "s">>,
     authors |-> <<"A", " ", "S", "m", "i", "t", "h">>,
     published_date |-> Date(2021, 5, 1),
     pdf_url |-> <<"u", "1">>, categories |-> <<"c", "s", ".", "A", "I">>],
    [entry_id |-> <<"p", "2">>, title |-> <<"T", "r", "e", "e", "s">>,
     summary |-> <<"o", "'", "n", " ", "t", "r", "e", "e", "s">>,
     authors |-> <<"B", " ", "L", "e", "e">>,
     published_date |-> NoDate,
     pdf_url |-> <<"u", "1">>, categories |-> <<"c", "s", ".", "L", "G">>],
    [entry_id |-> <<"p", "4">>, title |-> <<"O", "l", "d", " ", "N", "e", "t", "s">>,
     summary |-> <<"w", "a", "s", " ", "n", "e", "t", "s">>,
     authors |-> <<"D", " ", "S", "m", "i", "t", "h">>,
     published_date |-> Date(2019, 3, 2),
     pdf_url |-> <<"u", "1">>, categories |-> <<"c", "s", ".", "A", "I">>] >>

\* the sub-lists of a catalog (order kept) of at most MaxRows rows
RECURSIVE Pick(_, _)
Pick(cat, keep) ==
    IF cat = <<>> THEN <<>>
    ELSE (IF 1 \in keep THEN <<Head(cat)>> ELSE <<>>)
         \o Pick(Tail(cat), {i - 1 : i \in keep \ {1}})
Tables(cat) ==
    {Pick(cat, keep) : keep \in {k \in SUBSET (1..Len(cat)) : Cardinality(k) <= MaxRows}}

\* "not s or not s.strip()": the text is empty or whitespace only
IsBlank(s) == \A i \in 1..Len(s) : s[i] = " "

(***************************************************************************)
(* Request inputs.                                                         *)
(***************************************************************************)
\* the last query is whitespace only
Queries == { <<"n", "e", "t">>, <<"n", "_", "t">>, <<"o", "'", "n">>, <<" ">> }
Limits == 1..MaxLimit
\* 0.0, 0.5, 0.75, 0.8, 1.0
Thresholds == {0, 100, 150, 160, 200}
AuthorFilters == { <<"S", "M", "I", "T", "H">>, <<"b", "_", "l">> }
YearFilters == {2020}
CategoryFilters == { <<"a", "i">>, <<"m", "a", "t", "h">> }

\* metadata_filters: None, or a dict over a subset of the three keys
EmptyDict == [k \in {} |-> 0]
Entry(key, present, value) == IF present THEN key :> value ELSE EmptyDict
FilterDicts ==
    { Entry("authors", a # <<>>, a) @@ Entry("year", y # 0, y)
        @@ Entry("categories", c # <<>>, c) :
      a \in AuthorFilters \cup {<<>>}, y \in YearFilters \cup {0},
      c \in CategoryFilters \cup {<<>>} }
NoFilters == [isNone |-> TRUE, d |-> EmptyDict]
MetadataFilters ==
    {NoFilters} \cup {[isNone |-> FALSE, d |-> d] : d \in FilterDicts}

\* "if metadata_filters:" -- neither None nor an empty dict
Truthy(f) == ~f.isNone /\ DOMAIN f.d # {}
Has(f, key) == key \in DOMAIN f.d
\* the value under "year" is a text such as "2020" and not a number (the
\* HTTP layer accepts any JSON value); the dictionary keeps its number and
\* the filter carries the mark yearIsText
YearIsText(f) == "yearIsText" \in DOMAIN f

(***************************************************************************)
(* Tier strategies as functions of the rows a backend query returned.      *)
(***************************************************************************)
\* variant: min(1, 1 - (distance / 2)), the floor at 0 is missing
NormalizeNoFloor(distance) == Min(ScoreUnit, ScoreUnit - (distance \div 2))

\* variant: max(0, 1 - (distance / 2)), the ceiling at 1 is missing
NormalizeNoCeiling(distance) == Max(0, ScoreUnit - (distance \div 2))

\* max(0, min(1, 1 - (distance / 2)))
Normalize(distance) == Max(0, Min(ScoreUnit, ScoreUnit - (distance \div 2)))

\* truth value of an optional text: None and "" are false
TruthyText(t) == ~t.null /\ t.v # <<>>

\* str(row['published_date']) if row.get('published_date') else None
KbDateStr(t) == IF TruthyText(t) THEN Text(t.v) ELSE NoText
\* str(row['published_date']) if row['published_date'] else None; a NULL
\* date is taken to be false, as the conditional expects, and the text of a
\* date starts with its ISO form YYYY-MM-DD
StoreDateStr(dt) == IF dt.null THEN NoText ELSE Text(DateToStr(dt))

\* the paper dictionary built from a knowledge-base row
KbPaper(row) ==
    [entry_id |-> row.entry_id, title |-> row.title, summary |-> row.summary,
     authors |-> row.authors, published_date |-> KbDateStr(row.published_date),
     pdf_url |-> row.pdf_url, categories |-> row.categories,
     relevance_score |-> Normalize(row.distance)]

\* variant: every store record gets the score of the hybrid fallback
StorePaperOneScore(row, score) ==
    [entry_id |-> row.entry_id, title |-> row.title, summary |-> row.summary,
     authors |-> row.authors, published_date |-> StoreDateStr(row.published_date),
     pdf_url |-> row.pdf_url, categories |-> row.categories,
     relevance_score |-> HybridLexicalScore]

\* variant: every store record gets the score of the text-search fallback
StorePaperFallbackScore(row, score) ==
    [entry_id |-> row.entry_id, title |-> row.title, summary |-> row.summary,
     authors |-> row.authors, published_date |-> StoreDateStr(row.published_date),
     pdf_url |-> row.pdf_url, categories |-> row.categories,
     relevance_score |-> LexicalScore]

\* the paper dictionary built from a store row, with the tier's constant score
StorePaper(row, score) ==
    [entry_id |-> row.entry_id, title |-> row.title, summary |-> row.summary,
     authors |-> row.authors, published_date |-> StoreDateStr(row.published_date),
     pdf_url |-> row.pdf_url, categories |-> row.categories,
     relevance_score |-> score]

MapSeq(s, F(_)) == [i \in 1..Len(s) |-> F(s[i])]

\* WHERE LOWER(title) LIKE .. OR LOWER(summary) LIKE .. OR LOWER(categories) LIKE ..
StoreTextMatch(row, q) ==
    \/ SqlContainsLike(row.title, q)
    \/ SqlContainsLike(row.summary, q)
    \/ SqlContainsLike(row.categories, q)

SamplePrefix == <<"a", "r", "x", "i", "v", "-", "s", "a", "m", "p", "l", "e", "-">>

\* one record of the sample data returned when both backends failed (the
\* fixed wording of summary and pdf_url is abbreviated)
SamplePaper(i, q) ==
    [entry_id |-> SamplePrefix \o IntToStr(i),
     title |-> <<"S", "a", "m", "p", "l", "e", " ", "P", "a", "p", "e", "r", " ">>
               \o IntToStr(i) \o <<":", " ">> \o q,
     summary |-> <<"s", "a", "m", "p", "l", "e", " ">> \o IntToStr(i)
                 \o <<" ">> \o q,
     authors |-> <<"J", "o", "h", "n", " ", "D", "o", "e", ",", " ",
                   "J", "a", "n", "e", " ", "S", "m", "i", "t", "h">>,
     published_date |-> Text(DateToStr(Date(2024, 1, 1))),
     pdf_url |-> <<"s", "a", "m", "p", "l", "e">> \o IntToStr(i) \o <<".", "p", "d", "f">>,
     categories |-> <<"c", "s", ".", "L", "G", ",", " ", "c", "s", ".", "A", "I">>,
     relevance_score |-> SampleBase - (i * SampleStep)]

\* variant: range(1, min(limit, 6))
SamplePapersShort(q, lim) ==
    [i \in 1..(Min(lim, SampleStop) - 1) |-> SamplePaper(i, q)]

\* [sample(i) for i in range(1, min(limit + 1, 6))]
SamplePapers(q, lim) ==
    [i \in 1..(Min(lim + 1, SampleStop) - 1) |-> SamplePaper(i, q)]

\* variant: the statement is sent without its LIMIT
KbSelectAll(rows, lim) == rows

\* rows of "... FROM academic_kb WHERE content = '<q>' LIMIT <lim>"; which
\* rows are similar to the query text is the backend's business, the model
\* lets it return its rows in ascending distance whatever the text
KbSelect(rows, lim) == Prefix(rows, lim)

\* variant: the statement is sent without its LIMIT 50
KbSelectRelevantAll(rows, thr) == SelectSeq(rows, LAMBDA r : r.relevance >= thr)

\* rows of "... WHERE content = '<q>' AND relevance >= <threshold> LIMIT 50"
KbSelectRelevant(rows, thr) ==
    Prefix(SelectSeq(rows, LAMBDA r : r.relevance >= thr), InternalCap)

\* rows of the text search of the store, "LIMIT <lim>"
StoreSelect(rows, q, lim) ==
    Prefix(SelectSeq(rows, LAMBDA r : StoreTextMatch(r, q)), lim)

(***************************************************************************)
(* Metadata filters of hybrid search, in their three places.               *)
(***************************************************************************)
\* primary tier, authors: filter.lower() in str(authors).lower()
KbAuthorsOk(row, f) ==
    Has(f, "authors") => Contains(Lower(f.d["authors"]), Lower(row.authors))

\* primary tier, year: int(str(pub_date)[:4]) raises on a date that is not
\* a number in its first four characters
KbYearRaises(row, f) ==
    /\ Has(f, "year")
    /\ TruthyText(row.published_date)
    /\ ~IsInt(Prefix(row.published_date.v, 4))
\* primary tier, year: "year < metadata_filters['year']" raises TypeError
\* when the filter value is a text
KbYearCompareRaises(row, f) ==
    /\ Has(f, "year")
    /\ TruthyText(row.published_date)
    /\ IsInt(Prefix(row.published_date.v, 4))
    /\ YearIsText(f)
\* variant: the comparison of the year check is inverted
KbYearOkInverted(row, f) ==
    (Has(f, "year") /\ TruthyText(row.published_date))
        => ParseInt(Prefix(row.published_date.v, 4)) <= f.d["year"]
KbYearOk(row, f) ==
    (Has(f, "year") /\ TruthyText(row.published_date))
        => ParseInt(Prefix(row.published_date.v, 4)) >= f.d["year"]

\* primary tier, categories
KbCategoriesOk(row, f) ==
    Has(f, "categories")
        => Contains(Lower(f.d["categories"]), Lower(row.categories))

\* the loop body of the primary tier keeps the row
KbKeep(row, f) ==
    Truthy(f) => (KbAuthorsOk(row, f) /\ KbYearOk(row, f) /\ KbCategoriesOk(row, f))

\* the loop of the primary tier raises: some row reaches the year check
\* with an unparseable date, or the year comparison with a text filter
KbLoopRaises(rows, f) ==
    /\ Truthy(f)
    /\ \E i \in 1..Len(rows) :
          /\ KbAuthorsOk(rows[i], f)
          /\ (KbYearRaises(rows[i], f) \/ KbYearCompareRaises(rows[i], f))

\* secondary tier: the predicates appended to the SQL statement
StoreAuthorsSql(row, f) ==
    Has(f, "authors") => SqlContainsLike(row.authors, f.d["authors"])
StoreYearSql(row, f) ==
    Has(f, "year") => (~row.published_date.null /\ row.published_date.y >= f.d["year"])
StoreCategoriesSql(row, f) ==
    Has(f, "categories") => SqlContainsLike(row.categories, f.d["categories"])
StoreFilterSql(row, f) ==
    Truthy(f) => (StoreAuthorsSql(row, f) /\ StoreYearSql(row, f) /\ StoreCategoriesSql(row, f))

\* rows of the filtered text search of the store, "LIMIT 50"
StoreSelectFiltered(rows, q, f) ==
    Prefix(SelectSeq(rows, LAMBDA r : StoreTextMatch(r, q) /\ StoreFilterSql(r, f)),
           InternalCap)

\* final fallback: the post-filter over the list of _query_papers_sync
PostAuthorsOk(p, f) ==
    Has(f, "authors") => Contains(Lower(f.d["authors"]), Lower(p.authors))
PostYearRaises(p, f) ==
    /\ Has(f, "year") /\ PostAuthorsOk(p, f)
    /\ TruthyText(p.published_date)
    /\ ~IsInt(Prefix(p.published_date.v, 4))
PostYearOk(p, f) ==
    (Has(f, "year") /\ TruthyText(p.published_date))
        => ParseInt(Prefix(p.published_date.v, 4)) >= f.d["year"]
\* "pub_year < year_filter" raises TypeError when the filter value is a text
PostYearCompareRaises(p, f) ==
    /\ Has(f, "year") /\ PostAuthorsOk(p, f)
    /\ TruthyText(p.published_date)
    /\ IsInt(Prefix(p.published_date.v, 4))
    /\ YearIsText(f)
PostKeep(p, f) == PostAuthorsOk(p, f) /\ PostYearOk(p, f)
PostFilterRaises(ps, f) ==
    /\ Truthy(f)
    /\ \E i \in 1..Len(ps) :
          PostYearRaises(ps[i], f) \/ PostYearCompareRaises(ps[i], f)
\* the exception that leaves the post-filter: that of the first record, in
\* list order, whose year check raises
PostFilterError(ps, f) ==
    LET raising == {i \in 1..Len(ps) :
                      PostYearRaises(ps[i], f) \/ PostYearCompareRaises(ps[i], f)}
        first == CHOOSE i \in raising : \A j \in raising : i <= j
    IN  IF ~Truthy(f) \/ raising = {} THEN "none"
        ELSE IF PostYearRaises(ps[first], f) THEN "ValueError"
        ELSE "TypeError"
\* variant: the list is returned only from inside "if metadata_filters:"
PostFilterNoElse(ps, f) ==
    IF Truthy(f) THEN SelectSeq(ps, LAMBDA p : PostKeep(p, f)) ELSE <<>>
PostFilter(ps, f) ==
    IF Truthy(f) THEN SelectSeq(ps, LAMBDA p : PostKeep(p, f)) ELSE ps

(***************************************************************************)
(* State.                                                                  *)
(*   kbRows, storeRows  contents of the two backends (not written here)    *)
(*   op, query, limit, threshold, metadata_filters  the request in hand    *)
(*   pc        the tier attempt the request is about to make               *)
(*   attempts  the tier attempts made so far for this request              *)
(*   fetched   the rows returned by the backend query that succeeded       *)
(*   results   the list _query_papers_sync returned                        *)
(*   result    the list returned to the caller                             *)
(*   outcome   "pending", "returned" or "raised"                           *)
(*   entry_id  the identifier asked of get_paper_by_id                     *)
(*   paper     what get_paper_by_id returned: <<>> for None, else <<p>>    *)
(*   response  the HTTP response of an endpoint: status and records        *)
(*   decisions what the three filter places of hybrid search decided for   *)
(*             one candidate, when they are evaluated on their own         *)
(*   threads   the locals of the requests that run at the same time, one   *)
(*             record per worker thread, when requests run concurrently    *)
(***************************************************************************)
VARIABLES kbRows, storeRows, op, query, limit, threshold, metadata_filters,
          pc, attempts, fetched, results, result, outcome,
          entry_id, paper, response, decisions, threads

vars == <<kbRows, storeRows, op, query, limit, threshold, metadata_filters,
          pc, attempts, fetched, results, result, outcome,
          entry_id, paper, response, decisions, threads>>
backends == <<kbRows, storeRows>>
request == <<op, query, limit, threshold, metadata_filters, entry_id>>
reply == <<paper, response>>

\* the filter places have not been evaluated on their own
NoDecisions == [primary |-> "none", secondary |-> "none", fallback |-> "none"]

\* the locals of a worker thread that has no request
IdleThread ==
    [op |-> "none", query |-> <<>>, limit |-> 0, entry_id |-> <<>>, pc |-> "idle",
     attempts |-> <<>>, result |-> <<>>, paper |-> <<>>]
Threads == {1, 2}
NoThreads == [t \in Threads |-> IdleThread]

\* no HTTP response has been built
NoResponse == [status |-> 0, results |-> <<>>]

NothingFetched == [tier |-> "none", rows |-> <<>>]
Attempt(tier, ok, via) == [tier |-> tier, ok |-> ok, via |-> via]

Init ==
    /\ kbRows \in Tables(KbCatalog)
    /\ storeRows \in Tables(StoreCatalog)
    /\ op = "none" /\ query = <<>> /\ limit = 0 /\ threshold = 0
    /\ metadata_filters = NoFilters
    /\ pc = "idle"
    /\ attempts = <<>>
    /\ fetched = NothingFetched
    /\ results = <<>>
    /\ result = <<>>
    /\ outcome = "pending"
    /\ entry_id = <<>>
    /\ paper = <<>>
    /\ response = NoResponse
    /\ decisions = NoDecisions
    /\ threads = NoThreads

Begin(o, q, l, t, f, first) ==
    /\ pc = "idle"
    /\ op' = o /\ query' = q /\ limit' = l /\ threshold' = t
    /\ metadata_filters' = f
    /\ pc' = first
    /\ attempts' = <<>>
    /\ fetched' = NothingFetched
    /\ results' = <<>>
    /\ result' = <<>>
    /\ outcome' = "pending"
    /\ entry_id' = <<>>
    /\ paper' = <<>>
    /\ UNCHANGED <<decisions, threads>>
    /\ response' = NoResponse
    /\ UNCHANGED backends

\* query_academic_papers(query, limit) / query_knowledge_base(query, limit)
StartPlain == \E q \in Queries, l \in Limits :
    Begin("plain", q, l, 0, NoFilters, "plain_primary")

\* semantic_search(query, threshold)
StartSemantic == \E q \in Queries, t \in Thresholds :
    Begin("semantic", q, 0, t, NoFilters, "semantic_primary")

\* hybrid_search(query, metadata_filters)
StartHybrid == \E q \in Queries, f \in MetadataFilters :
    Begin("hybrid", q, 0, 0, f, "hybrid_primary")

\* the limit argument of _query_papers_sync: the caller's limit, or 50 when
\* called as the fallback of semantic and hybrid search
PlainLimit == IF op = "plain" THEN limit ELSE InternalCap

\* variant: when no record reaches the threshold the sample data is filtered
\* in its place
AboveThresholdFilled(ps, thr) ==
    LET kept == SelectSeq(ps, LAMBDA p : p.relevance_score >= thr)
    IN  IF kept = <<>>
        THEN SelectSeq(SamplePapers(query, InternalCap),
                       LAMBDA p : p.relevance_score >= thr)
        ELSE kept

\* variant: relevance_score > threshold
AboveThresholdStrict(ps, thr) == SelectSeq(ps, LAMBDA p : p.relevance_score > thr)

\* [r for r in results if r.get("relevance_score", 0) >= threshold]
AboveThreshold(ps, thr) == SelectSeq(ps, LAMBDA p : p.relevance_score >= thr)

\* variant: an empty list of the knowledge base is treated as a failure and
\* the text search is tried next
ReturnUnlessEmpty(ps) ==
    IF ps = <<>> /\ pc = "plain_primary"
    THEN /\ pc' = "plain_secondary"
         /\ UNCHANGED <<results, result, outcome>>
    ELSE /\ results' = ps
         /\ pc' = "done"
         /\ CASE op = "plain" ->
                   result' = ps /\ outcome' = "returned"
              [] op = "semantic" ->
                   result' = AboveThreshold(ps, threshold) /\ outcome' = "returned"
              [] op = "hybrid" ->
                   IF PostFilterRaises(ps, metadata_filters)
                   THEN result' = <<>> /\ outcome' = "raised"
                   ELSE result' = PostFilter(ps, metadata_filters) /\ outcome' = "returned"

\* variant: a list of a real backend is topped up with one sample record
ReturnToppedUp(ps) ==
    LET qs == IF pc = "plain_tertiary" THEN ps ELSE ps \o SamplePapers(query, 1)
    IN  /\ results' = qs
        /\ pc' = "done"
        /\ CASE op = "plain" ->
                  result' = qs /\ outcome' = "returned"
             [] op = "semantic" ->
                  result' = AboveThreshold(qs, threshold) /\ outcome' = "returned"
             [] op = "hybrid" ->
                  IF PostFilterRaises(qs, metadata_filters)
                  THEN result' = <<>> /\ outcome' = "raised"
                  ELSE result' = PostFilter(qs, metadata_filters) /\ outcome' = "returned"

\* _query_papers_sync returns ps; its caller finishes the request
Return(ps) ==
    /\ results' = ps
    /\ pc' = "done"
    /\ CASE op = "plain" ->
              result' = ps /\ outcome' = "returned"
         [] op = "semantic" ->
              result' = AboveThreshold(ps, threshold) /\ outcome' = "returned"
         [] op = "hybrid" ->
              IF PostFilterRaises(ps, metadata_filters)
              THEN result' = <<>> /\ outcome' = "raised"
              ELSE result' = PostFilter(ps, metadata_filters) /\ outcome' = "returned"

\* variant: a failed tier is tried a second time before going on
FallThroughRetry(tier, via, next) ==
    /\ attempts' = Append(attempts, Attempt(tier, FALSE, via))
    /\ pc' = IF \E i \in 1..Len(attempts) :
                   attempts[i].tier = tier /\ attempts[i].via = via
             THEN next ELSE pc
    /\ UNCHANGED <<fetched, results, result, outcome>>

\* variant: after a failed knowledge-base query of _query_papers_sync the
\* sample data is returned without trying the store
FallThroughToSamples(tier, via, next) ==
    /\ attempts' = Append(attempts, Attempt(tier, FALSE, via))
    /\ pc' = IF next = "plain_secondary" THEN "plain_tertiary" ELSE next
    /\ UNCHANGED <<fetched, results, result, outcome>>

\* a tier attempt failed: go on to the next one
FallThrough(tier, via, next) ==
    /\ attempts' = Append(attempts, Attempt(tier, FALSE, via))
    /\ pc' = next
    /\ UNCHANGED <<fetched, results, result, outcome>>

\* _query_papers_sync, the knowledge-base query
PlainPrimary ==
    /\ pc = "plain_primary"
    /\ \E up \in BOOLEAN :
         IF up
         THEN LET rows == KbSelect(kbRows, PlainLimit)
              IN  /\ attempts' = Append(attempts, Attempt("primary", TRUE, "plain"))
                  /\ fetched' = [tier |-> "primary", rows |-> rows]
                  /\ Return(MapSeq(rows, KbPaper))
         ELSE FallThrough("primary", "plain", "plain_secondary")
    /\ UNCHANGED <<backends, request, reply, decisions, threads>>

\* _query_papers_sync, the DuckDB text search
PlainSecondary ==
    /\ pc = "plain_secondary"
    /\ \E up \in BOOLEAN :
         IF up
         THEN LET rows == StoreSelect(storeRows, query, PlainLimit)
              IN  /\ attempts' = Append(attempts, Attempt("secondary", TRUE, "plain"))
                  /\ fetched' = [tier |-> "secondary", rows |-> rows]
                  /\ Return(MapSeq(rows, LAMBDA r : StorePaper(r, LexicalScore)))
         ELSE FallThrough("secondary", "plain", "plain_tertiary")
    /\ UNCHANGED <<backends, request, reply, decisions, threads>>

\* _query_papers_sync, the sample data
PlainTertiary ==
    /\ pc = "plain_tertiary"
    /\ attempts' = Append(attempts, Attempt("tertiary", TRUE, "plain"))
    /\ fetched' = [tier |-> "tertiary", rows |-> <<>>]
    /\ Return(SamplePapers(query, PlainLimit))
    /\ UNCHANGED <<backends, request, reply, decisions, threads>>

\* _semantic_search_sync, the knowledge-base query
SemanticPrimary ==
    /\ pc = "semantic_primary"
    /\ \E up \in BOOLEAN :
         IF up
         THEN LET rows == KbSelectRelevant(kbRows, threshold)
              IN  /\ attempts' = Append(attempts, Attempt("primary", TRUE, "semantic"))
                  /\ fetched' = [tier |-> "primary", rows |-> rows]
                  /\ result' = AboveThreshold(MapSeq(rows, KbPaper), threshold)
                  /\ outcome' = "returned"
                  /\ pc' = "done"
                  /\ UNCHANGED results
         ELSE FallThrough("primary", "semantic", "plain_primary")
    /\ UNCHANGED <<backends, request, reply, decisions, threads>>

\* _hybrid_search_sync, the knowledge-base query and its filter loop
HybridPrimary ==
    /\ pc = "hybrid_primary"
    /\ \E up \in BOOLEAN :
         LET rows == KbSelect(kbRows, InternalCap)
         IN  IF up /\ ~KbLoopRaises(rows, metadata_filters)
             THEN /\ attempts' = Append(attempts, Attempt("primary", TRUE, "hybrid"))
                  /\ fetched' = [tier |-> "primary", rows |-> rows]
                  /\ result' = MapSeq(SelectSeq(rows, LAMBDA r : KbKeep(r, metadata_filters)),
                                      KbPaper)
                  /\ outcome' = "returned"
                  /\ pc' = "done"
                  /\ UNCHANGED results
             ELSE FallThrough("primary", "hybrid", "hybrid_secondary")
    /\ UNCHANGED <<backends, request, reply, decisions, threads>>

\* _hybrid_search_sync, the DuckDB search with the filters in the statement
HybridSecondary ==
    /\ pc = "hybrid_secondary"
    /\ \E up \in BOOLEAN :
         IF up
         THEN LET rows == StoreSelectFiltered(storeRows, query, metadata_filters)
              IN  /\ attempts' = Append(attempts, Attempt("secondary", TRUE, "hybrid"))
                  /\ fetched' = [tier |-> "secondary", rows |-> rows]
                  /\ result' = MapSeq(rows, LAMBDA r : StorePaper(r, HybridLexicalScore))
                  /\ outcome' = "returned"
                  /\ pc' = "done"
                  /\ UNCHANGED results
         ELSE FallThrough("secondary", "hybrid", "plain_primary")
    /\ UNCHANGED <<backends, request, reply, decisions, threads>>

(***************************************************************************)
(* Point lookup, _get_paper_by_id_sync.                                    *)
(***************************************************************************)
LookupIds == { <<"p", "1">>, <<"p", "9">>,
               <<"a", "r", "x", "i", "v", "-", "s", "a", "m", "p", "l", "e", "-", "1">>,
               <<"a", "r", "x", "i", "v", "-", "9">> }

\* entry_id.startswith("arxiv-")
LookupPrefix == <<"a", "r", "x", "i", "v", "-">>

\* variant: the statement is sent without its WHERE clause
StoreLookupAny(rows, id) == rows

\* rows of "... FROM papers WHERE entry_id = '<escaped id>'"
StoreLookup(rows, id) ==
    LET lit == SqlLiteralValue(EscapeQuotes(id))
    IN  SelectSeq(rows, LAMBDA r : ~lit.bad /\ r.entry_id = lit.v)

\* the dictionary built from result.iloc[0]; it has no relevance_score
LookupPaper(row) ==
    [entry_id |-> row.entry_id, title |-> row.title, summary |-> row.summary,
     authors |-> row.authors, published_date |-> StoreDateStr(row.published_date),
     pdf_url |-> row.pdf_url, categories |-> row.categories]

\* the fallback sample record; its published_date is a date, not a text
LookupSample(id) ==
    [entry_id |-> id,
     title |-> <<"S", "a", "m", "p", "l", "e", " ", "P", "a", "p", "e", "r", " ",
                 "f", "o", "r", " ">> \o id,
     summary |-> <<"T", "h", "i", "s", " ", "i", "s", " ", "a", " ", "d", "e", "t",
                 "a", "i", "l", "e", "d", " ", "s", "u", "m", "m", "a", "r", "y", " ",
                 "o", "f", " ", "t", "h", "e", " ", "p", "a", "p", "e", "r", ".">>,
     authors |-> <<"J", "o", "h", "n", " ", "D", "o", "e", ",", " ",
                   "J", "a", "n", "e", " ", "S", "m", "i", "t", "h">>,
     published_date |-> Date(2024, 1, 1),
     pdf_url |-> <<"h", "t", "t", "p", "s", ":", "/", "/", "a", "r", "x", "i", "v",
                 ".", "o", "r", "g", "/", "p", "d", "f", "/">>
                 \o id \o <<".", "p", "d", "f">>,
     categories |-> <<"c", "s", ".", "L", "G", ",", " ", "c", "s", ".", "A", "I">>]

\* variant: the except branch returns the sample record for every identifier
LookupFallbackAlways(id) == <<LookupSample(id)>>

\* the except branch: a sample record for an "arxiv-" identifier, else None
LookupFallback(id) ==
    IF StartsWith(id, LookupPrefix) THEN <<LookupSample(id)>> ELSE <<>>

BeginLookup(id) ==
    /\ pc = "idle"
    /\ op' = "lookup" /\ query' = <<>> /\ limit' = 0 /\ threshold' = 0
    /\ metadata_filters' = NoFilters
    /\ entry_id' = id
    /\ pc' = "lookup"
    /\ attempts' = <<>>
    /\ fetched' = NothingFetched
    /\ results' = <<>>
    /\ result' = <<>>
    /\ outcome' = "pending"
    /\ paper' = <<>>
    /\ UNCHANGED <<decisions, threads>>
    /\ response' = NoResponse
    /\ UNCHANGED backends

\* get_paper_by_id(entry_id)
StartLookup == \E id \in LookupIds : BeginLookup(id)

\* variant: the knowledge base is asked before the store
LookupAfterKb ==
    /\ pc = "lookup"
    /\ \E up \in BOOLEAN :
         IF up
         THEN LET rows == StoreLookup(storeRows, entry_id)
              IN  /\ attempts' = attempts \o <<Attempt("primary", FALSE, "lookup"),
                                               Attempt("secondary", TRUE, "lookup")>>
                  /\ fetched' = [tier |-> "secondary", rows |-> rows]
                  /\ paper' = IF Len(rows) > 0 THEN <<LookupPaper(rows[1])>> ELSE <<>>
         ELSE /\ attempts' = attempts \o <<Attempt("primary", FALSE, "lookup"),
                                           Attempt("secondary", FALSE, "lookup")>>
              /\ fetched' = fetched
              /\ paper' = LookupFallback(entry_id)
    /\ outcome' = "returned"
    /\ pc' = "done"
    /\ UNCHANGED <<backends, request, results, result, response, decisions, threads>>

\* variant: an identifier the store does not hold is handled like a failure
\* of the store
LookupFallbackOnMiss ==
    /\ pc = "lookup"
    /\ \E up \in BOOLEAN :
         IF up
         THEN LET rows == StoreLookup(storeRows, entry_id)
              IN  /\ attempts' = Append(attempts, Attempt("secondary", TRUE, "lookup"))
                  /\ fetched' = [tier |-> "secondary", rows |-> rows]
                  /\ paper' = IF Len(rows) > 0 THEN <<LookupPaper(rows[1])>>
                              ELSE LookupFallback(entry_id)
         ELSE /\ attempts' = Append(attempts, Attempt("secondary", FALSE, "lookup"))
              /\ fetched' = fetched
              /\ paper' = LookupFallback(entry_id)
    /\ outcome' = "returned"
    /\ pc' = "done"
    /\ UNCHANGED <<backends, request, results, result, response, decisions, threads>>

\* _get_paper_by_id_sync: the DuckDB query, or the except branch
Lookup ==
    /\ pc = "lookup"
    /\ \E up \in BOOLEAN :
         IF up
         THEN LET rows == StoreLookup(storeRows, entry_id)
              IN  /\ attempts' = Append(attempts, Attempt("secondary", TRUE, "lookup"))
                  /\ fetched' = [tier |-> "secondary", rows |-> rows]
                  /\ paper' = IF Len(rows) > 0 THEN <<LookupPaper(rows[1])>> ELSE <<>>
         ELSE /\ attempts' = Append(attempts, Attempt("secondary", FALSE, "lookup"))
              /\ fetched' = fetched
              /\ paper' = LookupFallback(entry_id)
    /\ outcome' = "returned"
    /\ pc' = "done"
    /\ UNCHANGED <<backends, request, results, result, response, decisions, threads>>

\* the caller has its answer and the request's locals are gone; the next
\* request may arrive
Respond ==
    /\ pc = "done"
    /\ pc' = "idle"
    /\ op' = "none" /\ query' = <<>> /\ limit' = 0 /\ threshold' = 0
    /\ metadata_filters' = NoFilters
    /\ attempts' = <<>>
    /\ fetched' = NothingFetched
    /\ results' = <<>>
    /\ result' = <<>>
    /\ outcome' = "pending"
    /\ entry_id' = <<>>
    /\ paper' = <<>>
    /\ UNCHANGED <<decisions, threads>>
    /\ response' = NoResponse
    /\ UNCHANGED backends

Next ==
    \/ StartPlain \/ StartSemantic \/ StartHybrid
    \/ PlainPrimary \/ PlainSecondary \/ PlainTertiary
    \/ SemanticPrimary
    \/ HybridPrimary \/ HybridSecondary
    \/ StartLookup \/ Lookup
    \/ Respond

Spec == Init /\ [][Next]_vars

\* a tier attempt: one call to a backend, or the building of the sample data
TierStep ==
    \/ PlainPrimary \/ PlainSecondary \/ PlainTertiary
    \/ SemanticPrimary
    \/ HybridPrimary \/ HybridSecondary
    \/ Lookup

\* backend contents of the runs with fairness: a knowledge base that is
\* empty or holds a dated row and a row with the date "n/a", a store that is
\* empty or holds one row
LiveKbTables == { <<>>, <<KbCatalog[1], KbCatalog[4]>> }
LiveStoreTables == { <<>>, <<StoreCatalog[1]>> }

LiveInit == Init /\ kbRows \in LiveKbTables /\ storeRows \in LiveStoreTables

\* every backend call returns or fails in the end: the worker thread that
\* run_in_executor gave the request goes on to its next statement
LiveSpec == LiveInit /\ [][Next]_vars /\ WF_vars(TierStep)

(***************************************************************************)
(* The distance-to-relevance conversion on its own: the knowledge base     *)
(* answers with two rows of any distances and the primary tier builds      *)
(* their paper dictionaries.                                               *)
(***************************************************************************)
\* distances in steps of 0.01, from below 0 to above 2
Distances == { 2 * k : k \in (0 - MaxOver)..(ScoreUnit + MaxOver) }

RowAt(distance) == [KbCatalog[1] EXCEPT !.distance = distance]

NormInit ==
    /\ kbRows \in { <<RowAt(d1), RowAt(d2)>> : d1 \in Distances, d2 \in Distances }
    /\ storeRows = <<>>
    /\ op = "none" /\ query = <<>> /\ limit = 0 /\ threshold = 0
    /\ metadata_filters = NoFilters
    /\ pc = "convert"
    /\ attempts = <<>>
    /\ fetched = NothingFetched
    /\ results = <<>>
    /\ result = <<>>
    /\ outcome = "pending"
    /\ entry_id = <<>>
    /\ paper = <<>>
    /\ response = NoResponse
    /\ decisions = NoDecisions
    /\ threads = NoThreads

\* the loop over the rows of the knowledge-base answer
Convert ==
    /\ pc = "convert"
    /\ fetched' = [tier |-> "primary", rows |-> kbRows]
    /\ results' = MapSeq(kbRows, KbPaper)
    /\ pc' = "converted"
    /\ UNCHANGED <<backends, request, attempts, result, outcome, reply, decisions, threads>>

NormNext == Convert

NormSpec == NormInit /\ [][NormNext]_vars

(***************************************************************************)
(* The metadata filters on their own: one candidate, held by both          *)
(* backends, is put before the three places where hybrid search filters.   *)
(***************************************************************************)
\* the loop body of the primary tier for one row
KbDecision(row, f) ==
    IF Truthy(f) /\ KbAuthorsOk(row, f)
         /\ (KbYearRaises(row, f) \/ KbYearCompareRaises(row, f))
    THEN "raise"
    ELSE IF KbKeep(row, f) THEN "keep" ELSE "discard"

\* the predicates of the SQL statement for one row
StoreDecision(row, f) == IF StoreFilterSql(row, f) THEN "keep" ELSE "discard"

\* the loop body of the final post-filter for one record
PostDecision(p, f) ==
    IF ~Truthy(f) THEN "keep"
    ELSE IF PostYearRaises(p, f) \/ PostYearCompareRaises(p, f) THEN "raise"
    ELSE IF PostKeep(p, f) THEN "keep" ELSE "discard"

FilterInit ==
    /\ \E i \in 1..Len(KbCatalog), j \in 1..Len(StoreCatalog) :
          /\ KbCatalog[i].entry_id = StoreCatalog[j].entry_id
          /\ kbRows = <<KbCatalog[i]>>
          /\ storeRows = <<StoreCatalog[j]>>
    /\ metadata_filters \in MetadataFilters
    /\ op = "hybrid" /\ query = <<>> /\ limit = 0 /\ threshold = 0
    /\ pc = "evaluate"
    /\ attempts = <<>>
    /\ fetched = NothingFetched
    /\ results = <<>>
    /\ result = <<>>
    /\ outcome = "pending"
    /\ entry_id = <<>>
    /\ paper = <<>>
    /\ response = NoResponse
    /\ decisions = NoDecisions
    /\ threads = NoThreads

\* the three places decide on the candidate
Evaluate ==
    /\ pc = "evaluate"
    /\ decisions' = [primary |-> KbDecision(kbRows[1], metadata_filters),
                     secondary |-> StoreDecision(storeRows[1], metadata_filters),
                     fallback |-> PostDecision(KbPaper(kbRows[1]), metadata_filters)]
    /\ pc' = "evaluated"
    /\ UNCHANGED <<backends, request, attempts, fetched, results, result,
                   outcome, reply, threads>>

FilterNext == Evaluate

FilterSpec == FilterInit /\ [][FilterNext]_vars

(***************************************************************************)
(* Threshold-filtered search over large backends: the knowledge base and   *)
(* the store hold about as many rows as the cap of 50, copies of the       *)
(* first catalog row under identifiers p1, p2, ...                         *)
(***************************************************************************)
BigSizes == (InternalCap - 1)..(InternalCap + MaxExtra)
BigKb(n) == [i \in 1..n |-> [KbCatalog[1] EXCEPT !.entry_id = <<"p">> \o IntToStr(i)]]
BigStore(n) == [i \in 1..n |-> [StoreCatalog[1] EXCEPT !.entry_id = <<"p">> \o IntToStr(i)]]

CapInit ==
    /\ kbRows \in { BigKb(n) : n \in BigSizes }
    /\ storeRows \in { BigStore(n) : n \in BigSizes }
    /\ op = "none" /\ query = <<>> /\ limit = 0 /\ threshold = 0
    /\ metadata_filters = NoFilters
    /\ pc = "idle"
    /\ attempts = <<>>
    /\ fetched = NothingFetched
    /\ results = <<>>
    /\ result = <<>>
    /\ outcome = "pending"
    /\ entry_id = <<>>
    /\ paper = <<>>
    /\ response = NoResponse
    /\ decisions = NoDecisions
    /\ threads = NoThreads

CapNext ==
    \/ StartSemantic
    \/ SemanticPrimary
    \/ PlainPrimary \/ PlainSecondary \/ PlainTertiary
    \/ Respond

CapSpec == CapInit /\ [][CapNext]_vars

(***************************************************************************)
(* Requests at the same time.  Each awaited call runs its synchronous      *)
(* function on a worker thread of the default executor; the arguments are  *)
(* passed to the call, every other name the function uses is a local, and  *)
(* each attempt opens its own connection.  The steps of the threads        *)
(* interleave in any order.                                                *)
(***************************************************************************)
ConcQueries == { <<"n", "e", "t">> }
ConcLimits == 1..2
ConcIds == { <<"p", "1">>, <<"a", "r", "x", "i", "v", "-", "9">> }
ConcKbTables == { <<>>, <<KbCatalog[1], KbCatalog[2]>> }
ConcStoreTables == { <<>>, <<StoreCatalog[1], StoreCatalog[3]>> }

\* variant: the arguments are kept in one module-level slot, which the
\* request of thread 1 has written
OwnShared(t) == threads[1]

\* the arguments and locals that the function running on thread t reads
Own(t) == threads[t]

ConcInit ==
    /\ kbRows \in ConcKbTables
    /\ storeRows \in ConcStoreTables
    /\ op = "none" /\ query = <<>> /\ limit = 0 /\ threshold = 0
    /\ metadata_filters = NoFilters
    /\ pc = "idle"
    /\ attempts = <<>>
    /\ fetched = NothingFetched
    /\ results = <<>>
    /\ result = <<>>
    /\ outcome = "pending"
    /\ entry_id = <<>>
    /\ paper = <<>>
    /\ response = NoResponse
    /\ decisions = NoDecisions
    /\ threads = NoThreads

\* everything but the locals of the threads
shared == <<kbRows, storeRows, op, query, limit, threshold, metadata_filters,
            pc, attempts, fetched, results, result, outcome,
            entry_id, paper, response, decisions>>

\* thread t goes from its locals to the locals th
ThreadTo(t, th) ==
    /\ threads' = [threads EXCEPT ![t] = th]
    /\ UNCHANGED shared

\* query_academic_papers(q, l) or get_paper_by_id(id) is awaited
ThreadStart(t) ==
    /\ threads[t].pc = "idle"
    /\ \/ \E q \in ConcQueries, l \in ConcLimits :
            ThreadTo(t, [IdleThread EXCEPT !.op = "plain", !.query = q,
                                           !.limit = l, !.pc = "plain_primary"])
       \/ \E id \in ConcIds :
            ThreadTo(t, [IdleThread EXCEPT !.op = "lookup", !.entry_id = id,
                                           !.pc = "lookup"])

\* _query_papers_sync on thread t, the knowledge-base query
ThreadPlainPrimary(t) ==
    /\ threads[t].pc = "plain_primary"
    /\ \E up \in BOOLEAN :
         IF up
         THEN ThreadTo(t, [threads[t] EXCEPT
                  !.attempts = Append(@, Attempt("primary", TRUE, "plain")),
                  !.result = MapSeq(KbSelect(kbRows, Own(t).limit), KbPaper),
                  !.pc = "done"])
         ELSE ThreadTo(t, [threads[t] EXCEPT
                  !.attempts = Append(@, Attempt("primary", FALSE, "plain")),
                  !.pc = "plain_secondary"])

\* _query_papers_sync on thread t, the DuckDB text search
ThreadPlainSecondary(t) ==
    /\ threads[t].pc = "plain_secondary"
    /\ \E up \in BOOLEAN :
         IF up
         THEN ThreadTo(t, [threads[t] EXCEPT
                  !.attempts = Append(@, Attempt("secondary", TRUE, "plain")),
                  !.result = MapSeq(StoreSelect(storeRows, Own(t).query, Own(t).limit),
                                    LAMBDA r : StorePaper(r, LexicalScore)),
                  !.pc = "done"])
         ELSE ThreadTo(t, [threads[t] EXCEPT
                  !.attempts = Append(@, Attempt("secondary", FALSE, "plain")),
                  !.pc = "plain_tertiary"])

\* _query_papers_sync on thread t, the sample data
ThreadPlainTertiary(t) ==
    /\ threads[t].pc = "plain_tertiary"
    /\ ThreadTo(t, [threads[t] EXCEPT
           !.attempts = Append(@, Attempt("tertiary", TRUE, "plain")),
           !.result = SamplePapers(Own(t).query, Own(t).limit),
           !.pc = "done"])

\* _get_paper_by_id_sync on thread t
ThreadLookup(t) ==
    /\ threads[t].pc = "lookup"
    /\ \E up \in BOOLEAN :
         IF up
         THEN LET rows == StoreLookup(storeRows, Own(t).entry_id)
              IN  ThreadTo(t, [threads[t] EXCEPT
                      !.attempts = Append(@, Attempt("secondary", TRUE, "lookup")),
                      !.paper = IF Len(rows) > 0 THEN <<LookupPaper(rows[1])>> ELSE <<>>,
                      !.pc = "done"])
         ELSE ThreadTo(t, [threads[t] EXCEPT
                  !.attempts = Append(@, Attempt("secondary", FALSE, "lookup")),
                  !.paper = LookupFallback(Own(t).entry_id),
                  !.pc = "done"])

\* the awaiting caller of thread t has its answer
ThreadFinish(t) ==
    /\ threads[t].pc = "done"
    /\ ThreadTo(t, IdleThread)

ConcNext ==
    \E t \in Threads :
        \/ ThreadStart(t)
        \/ ThreadPlainPrimary(t) \/ ThreadPlainSecondary(t) \/ ThreadPlainTertiary(t)
        \/ ThreadLookup(t)
        \/ ThreadFinish(t)

ConcSpec == ConcInit /\ [][ConcNext]_vars

(***************************************************************************)
(* The HTTP layer, api/routes.py: each endpoint validates its request,     *)
(* awaits the core operation and builds the response from what it          *)
(* returned.                                                               *)
(***************************************************************************)
MIN_QUERY_LENGTH == 1
MIN_SEARCH_LIMIT == 1

HttpQueries == { <<"n", "e", "t">>, <<" ">>, <<>> }
HttpLimits == 0..MaxLimit
HttpFilters ==
    { NoFilters,
      [isNone |-> FALSE, d |-> EmptyDict],
      [isNone |-> FALSE, d |-> "authors" :> <<"S", "M", "I", "T", "H">>],
      [isNone |-> FALSE, d |-> "year" :> 2020],
      [isNone |-> FALSE, d |-> "year" :> 2020, yearIsText |-> TRUE] }
HttpIds == { <<"p", "1">>, <<" ", "p", "1", " ">>, <<"p", "9">>, <<" ">>,
             <<"a", "r", "x", "i", "v", "-", "9">> }

\* str.strip() for the blank character
RECURSIVE Strip(_)
Strip(s) ==
    IF s = <<>> THEN <<>>
    ELSE IF Head(s) = " " THEN Strip(Tail(s))
    ELSE IF s[Len(s)] = " " THEN Strip(SubSeq(s, 1, Len(s) - 1))
    ELSE s

\* a text that the field published_date: Optional[date] accepts: YYYY-MM-DD
\* (the lengths of the months are not modelled)
IsIsoDate(s) ==
    /\ Len(s) = 10
    /\ s[5] = "-" /\ s[8] = "-"
    /\ IsInt(SubSeq(s, 1, 4)) /\ IsInt(SubSeq(s, 6, 7)) /\ IsInt(SubSeq(s, 9, 10))
    /\ ParseInt(SubSeq(s, 6, 7)) \in 1..12
    /\ ParseInt(SubSeq(s, 9, 10)) \in 1..31

\* published_date of a paper dictionary is None, a text or a date
IsDateObject(x) == "y" \in DOMAIN x
DateAccepted(x) == IsDateObject(x) \/ x.null \/ IsIsoDate(x.v)
DateOf(x) ==
    IF IsDateObject(x) THEN x
    ELSE IF x.null THEN NoDate
    ELSE Date(ParseInt(SubSeq(x.v, 1, 4)), ParseInt(SubSeq(x.v, 6, 7)),
              ParseInt(SubSeq(x.v, 9, 10)))

\* PaperResponse(...) raises a validation error, which is a ValueError
PaperRejected(p) == ~DateAccepted(p.published_date)

\* PaperResponse(entry_id=paper.get("entry_id", ""), ...); score is <<>> when
\* relevance_score is not passed
PaperResponse(p, score) ==
    [entry_id |-> p.entry_id, title |-> p.title, summary |-> p.summary,
     authors |-> p.authors, published_date |-> DateOf(p.published_date),
     pdf_url |-> p.pdf_url, relevance_score |-> score]

\* variant: the list is not cut
ApplyLimitNone(rs, lim) == rs

\* results[:request.limit], for a limit that is not negative
ApplyLimit(rs, lim) == SubSeq(rs, 1, Min(lim, Len(rs)))

\* the records an endpoint turns into PaperResponse objects
Outgoing == IF op = "hybrid" THEN ApplyLimit(result, limit) ELSE result

\* the response of a search endpoint to what the core operation did: a
\* ValueError becomes 400, any other exception 500
SearchResponse ==
    IF outcome = "raised"
    THEN IF PostFilterError(results, metadata_filters) = "ValueError"
         THEN [status |-> 400, results |-> <<>>]
         ELSE [status |-> 500, results |-> <<>>]
    ELSE IF \E i \in 1..Len(Outgoing) : PaperRejected(Outgoing[i])
    THEN [status |-> 400, results |-> <<>>]
    ELSE [status |-> 200,
          results |-> [i \in 1..Len(Outgoing) |->
                          PaperResponse(Outgoing[i], <<Outgoing[i].relevance_score>>)]]

\* variant: the 404 raised inside the try is caught by "except Exception"
PaperLookupResponseNoReraise ==
    IF paper = <<>>
    THEN [status |-> 500, results |-> <<>>]
    ELSE IF PaperRejected(paper[1])
    THEN [status |-> 400, results |-> <<>>]
    ELSE [status |-> 200, results |-> <<PaperResponse(paper[1], <<>>)>>]

\* the response of GET /papers/{entry_id} to what get_paper_by_id returned
PaperLookupResponse ==
    IF paper = <<>>
    THEN [status |-> 404, results |-> <<>>]
    ELSE IF PaperRejected(paper[1])
    THEN [status |-> 400, results |-> <<>>]
    ELSE [status |-> 200, results |-> <<PaperResponse(paper[1], <<>>)>>]

\* the request is answered with an error before any core operation runs
Reject(o, q, l, t, f, id, status) ==
    /\ pc = "idle"
    /\ op' = o /\ query' = q /\ limit' = l /\ threshold' = t
    /\ metadata_filters' = f
    /\ entry_id' = id
    /\ pc' = "responded"
    /\ attempts' = <<>>
    /\ fetched' = NothingFetched
    /\ results' = <<>>
    /\ result' = <<>>
    /\ outcome' = "pending"
    /\ paper' = <<>>
    /\ UNCHANGED <<decisions, threads>>
    /\ response' = [status |-> status, results |-> <<>>]
    /\ UNCHANGED backends

\* the request model refuses the body: FastAPI answers 422
BodyRefused(q, l) == Len(q) < MIN_QUERY_LENGTH \/ l < MIN_SEARCH_LIMIT

\* POST /search
HttpSearch ==
    \E q \in HttpQueries, l \in HttpLimits :
        IF BodyRefused(q, l) THEN Reject("plain", q, l, 0, NoFilters, <<>>, 422)
        ELSE IF IsBlank(q) THEN Reject("plain", q, l, 0, NoFilters, <<>>, 400)
        ELSE Begin("plain", q, l, 0, NoFilters, "plain_primary")

\* POST /search/semantic
HttpSemantic ==
    \E q \in HttpQueries, t \in Thresholds :
        IF BodyRefused(q, MIN_SEARCH_LIMIT) THEN Reject("semantic", q, 0, t, NoFilters, <<>>, 422)
        ELSE IF IsBlank(q) THEN Reject("semantic", q, 0, t, NoFilters, <<>>, 400)
        ELSE Begin("semantic", q, 0, t, NoFilters, "semantic_primary")

\* POST /search/hybrid
HttpHybrid ==
    \E q \in HttpQueries, l \in HttpLimits, f \in HttpFilters :
        IF BodyRefused(q, l) THEN Reject("hybrid", q, l, 0, f, <<>>, 422)
        ELSE IF IsBlank(q) THEN Reject("hybrid", q, l, 0, f, <<>>, 400)
        ELSE Begin("hybrid", q, l, 0, f, "hybrid_primary")

\* GET /papers/{entry_id}
HttpGetPaper ==
    \E id \in HttpIds :
        IF IsBlank(id) THEN Reject("lookup", <<>>, 0, 0, NoFilters, id, 400)
        ELSE BeginLookup(Strip(id))

\* the endpoint builds its response from what the core operation returned
HttpRespond ==
    /\ pc = "done"
    /\ pc' = "responded"
    /\ response' = IF op = "lookup" THEN PaperLookupResponse ELSE SearchResponse
    /\ UNCHANGED <<backends, request, attempts, fetched, results, result,
                   outcome, paper, decisions, threads>>

\* the response is sent; the next request may arrive
HttpClose ==
    /\ pc = "responded"
    /\ pc' = "idle"
    /\ op' = "none" /\ query' = <<>> /\ limit' = 0 /\ threshold' = 0
    /\ metadata_filters' = NoFilters
    /\ attempts' = <<>>
    /\ fetched' = NothingFetched
    /\ results' = <<>>
    /\ result' = <<>>
    /\ outcome' = "pending"
    /\ entry_id' = <<>>
    /\ paper' = <<>>
    /\ UNCHANGED <<decisions, threads>>
    /\ response' = NoResponse
    /\ UNCHANGED backends

HttpNext ==
    \/ HttpSearch \/ HttpSemantic \/ HttpHybrid \/ HttpGetPaper
    \/ PlainPrimary \/ PlainSecondary \/ PlainTertiary
    \/ SemanticPrimary
    \/ HybridPrimary \/ HybridSecondary
    \/ Lookup
    \/ HttpRespond \/ HttpClose

HttpSpec == Init /\ [][HttpNext]_vars

TypeOK ==
    /\ pc \in {"idle", "plain_primary", "plain_secondary", "plain_tertiary",
               "semantic_primary", "hybrid_primary", "hybrid_secondary",
               "lookup", "done", "responded", "convert", "converted",
               "evaluate", "evaluated"}
    /\ outcome \in {"pending", "returned", "raised"}
    /\ op \in {"none", "plain", "semantic", "hybrid", "lookup"}
    /\ Len(paper) <= 1

(***************************************************************************)
(* Helpers of the properties.                                              *)
(***************************************************************************)
Finished == pc = "done"
Last(s) == s[Len(s)]
Count(tier) == Cardinality({i \in 1..Len(attempts) : attempts[i].tier = tier})
CountVia(tier, via) ==
    Cardinality({i \in 1..Len(attempts) :
                    attempts[i].tier = tier /\ attempts[i].via = via})
IsSample(p) == StartsWith(p.entry_id, SamplePrefix)

(***************************************************************************)
(* C1.  Each of the three search operations returns a list to its caller:  *)
(* no failure is ever propagated out of a search operation.                *)
(***************************************************************************)
C1_NeverRaises == outcome # "raised"

(***************************************************************************)
(* C2.  The secondary tier is attempted only right after a failed primary  *)
(* attempt, the tertiary tier only right after a failed secondary attempt, *)
(* and an attempt that did not fail (empty list included) is the last      *)
(* attempt of its request.                                                 *)
(***************************************************************************)
C2_CascadeOrder ==
    op \in {"plain", "semantic", "hybrid"} =>
    \A i \in 1..Len(attempts) :
        /\ attempts[i].tier = "secondary" =>
              (i > 1 /\ attempts[i - 1].tier = "primary" /\ ~attempts[i - 1].ok)
        /\ attempts[i].tier = "tertiary" =>
              (i > 1 /\ attempts[i - 1].tier = "secondary" /\ ~attempts[i - 1].ok)
        /\ attempts[i].ok => (i = Len(attempts) /\ Finished)
        /\ (i = Len(attempts) /\ Finished) => attempts[i].ok

\* a secondary attempt that found nothing ended a hybrid request
C2_Witness ==
    /\ Finished /\ op = "hybrid" /\ outcome = "returned"
    /\ Len(attempts) = 2
    /\ Last(attempts).tier = "secondary" /\ Last(attempts).ok
    /\ result = <<>>

C4_SecondaryRecords ==
    (Finished /\ op = "plain" /\ fetched.tier = "secondary") =>
        /\ outcome = "returned"
        /\ Len(result) = Len(fetched.rows)
        /\ \A i \in 1..Len(result) :
             /\ result[i].entry_id = fetched.rows[i].entry_id
             /\ result[i].title = fetched.rows[i].title
             /\ result[i].summary = fetched.rows[i].summary
             /\ result[i].authors = fetched.rows[i].authors
             /\ result[i].pdf_url = fetched.rows[i].pdf_url
             /\ result[i].categories = fetched.rows[i].categories
             /\ result[i].published_date.null = fetched.rows[i].published_date.null
             /\ result[i].relevance_score = LexicalScore
             /\ ~IsSample(result[i])

\* the text search returned two rows after the knowledge base failed
C4_Witness ==
    /\ Finished /\ op = "plain" /\ fetched.tier = "secondary"
    /\ Len(attempts) = 2 /\ ~attempts[1].ok
    /\ Len(fetched.rows) = 2 /\ Len(result) = 2
    /\ limit = MaxLimit

(***************************************************************************)
(* C5.  Plain search with limit >= 1 whose primary and secondary attempts  *)
(* both failed returns between 1 and limit records (5 when limit = 5),     *)
(* all with the sample prefix, with distinct identifiers and with scores   *)
(* that are positive and strictly decreasing along the list.               *)
(***************************************************************************)
C5_SampleRecords ==
    (Finished /\ op = "plain" /\ fetched.tier = "tertiary" /\ limit >= 1) =>
        /\ outcome = "returned"
        /\ Len(result) >= 1 /\ Len(result) <= limit
        /\ limit = 5 => Len(result) = 5
        /\ \A i \in 1..Len(result) :
             /\ IsSample(result[i])
             /\ result[i].relevance_score > 0
        /\ \A i, j \in 1..Len(result) :
             i < j => /\ result[i].entry_id # result[j].entry_id
                      /\ result[i].relevance_score > result[j].relevance_score

\* both backends failed for a request of five records
C5_Witness ==
    /\ Finished /\ op = "plain" /\ fetched.tier = "tertiary"
    /\ Len(attempts) = 3 /\ ~attempts[1].ok /\ ~attempts[2].ok
    /\ limit = 5 /\ Len(result) = 5

(***************************************************************************)
(* C6.  Threshold-filtered search returns exactly the records of the       *)
(* winning tier whose relevance_score is >= threshold, in the tier's       *)
(* order.  The records of the winning tier are the rows its own query      *)
(* fetched, normalized, or the list the plain cascade returned.            *)
(***************************************************************************)
SemanticCandidates ==
    IF Last(attempts).via = "semantic"
    THEN MapSeq(fetched.rows, KbPaper)
    ELSE results
KeptIndexes(cand, thr) == {i \in 1..Len(cand) : cand[i].relevance_score >= thr}
IndexOfRank(K, k) == CHOOSE i \in K : Cardinality({j \in K : j <= i}) = k

AuthorsContain(p, f) == Contains(Lower(f.d["authors"]), Lower(p.authors))

\* identifiers of the candidates the winning tier drew from
HybridCandidateIds ==
    IF Last(attempts).via = "plain"
    THEN {results[i].entry_id : i \in 1..Len(results)}
    ELSE IF fetched.tier = "primary"
    THEN {fetched.rows[i].entry_id : i \in 1..Len(fetched.rows)}
    ELSE {storeRows[i].entry_id : i \in {j \in 1..Len(storeRows) :
                                            StoreTextMatch(storeRows[j], query)}}
AuthorsById(id) ==
    IF Last(attempts).via = "plain"
    THEN (CHOOSE p \in {results[i] : i \in 1..Len(results)} : p.entry_id = id).authors
    ELSE IF fetched.tier = "primary"
    THEN (CHOOSE r \in {fetched.rows[i] : i \in 1..Len(fetched.rows)} : r.entry_id = id).authors
    ELSE (CHOOSE r \in {storeRows[i] : i \in 1..Len(storeRows)} : r.entry_id = id).authors

C7_AuthorsExact ==
    (Finished /\ op = "hybrid" /\ outcome = "returned"
        /\ Has(metadata_filters, "authors")) =>
        /\ \A i \in 1..Len(result) : AuthorsContain(result[i], metadata_filters)
        /\ DOMAIN metadata_filters.d = {"authors"} =>
             \A id \in HybridCandidateIds :
                Contains(Lower(metadata_filters.d["authors"]), Lower(AuthorsById(id)))
                    => \E i \in 1..Len(result) : result[i].entry_id = id

(***************************************************************************)
(* C8.  With a minimum-year filter, hybrid search never returns a record   *)
(* whose publication date is missing or unparseable.                       *)
(***************************************************************************)
HasYear(p) == TruthyText(p.published_date) /\ IsInt(Prefix(p.published_date.v, 4))
YearOf(p) == ParseInt(Prefix(p.published_date.v, 4))

C8_NoUndatedUnderYearFilter ==
    (Finished /\ op = "hybrid" /\ outcome = "returned"
        /\ Has(metadata_filters, "year")) =>
        \A i \in 1..Len(result) : HasYear(result[i])

(***************************************************************************)
(* C9.  With a minimum-year filter, no record returned by hybrid search    *)
(* has a publication year smaller than the filter value, whichever tier    *)
(* produced the candidates.                                                *)
(***************************************************************************)
C9_NoEarlierYear ==
    (Finished /\ op = "hybrid" /\ outcome = "returned"
        /\ Has(metadata_filters, "year")) =>
        \A i \in 1..Len(result) :
            HasYear(result[i]) => YearOf(result[i]) >= metadata_filters.d["year"]

\* the fallback post-filter dropped a record of 2019 and kept one of 2021
C9_Witness ==
    /\ Finished /\ op = "hybrid" /\ outcome = "returned"
    /\ DOMAIN metadata_filters.d = {"year"}
    /\ Last(attempts).via = "plain"
    /\ \E i \in 1..Len(results) : HasYear(results[i]) /\ YearOf(results[i]) = 2019
    /\ \E i \in 1..Len(result) : HasYear(result[i]) /\ YearOf(result[i]) = 2021

(***************************************************************************)
(* C10.  With a categories filter, every record returned by hybrid search  *)
(* has categories that contain the filter value as a case-insensitive      *)
(* substring, whichever tier won.                                          *)
(***************************************************************************)
C10_CategoriesHold ==
    (Finished /\ op = "hybrid" /\ outcome = "returned"
        /\ Has(metadata_filters, "categories")) =>
        \A i \in 1..Len(result) :
            Contains(Lower(metadata_filters.d["categories"]), Lower(result[i].categories))

(***************************************************************************)
(* C11.  Hybrid search whose filters are None or an empty mapping discards *)
(* no candidate: it returns every record of the winning tier, in the       *)
(* tier's order.                                                           *)
(***************************************************************************)
\* the records of the attempt that won a hybrid request, before filtering
HybridCandidates ==
    IF Last(attempts).via = "plain" THEN results
    ELSE IF fetched.tier = "primary" THEN MapSeq(fetched.rows, KbPaper)
    ELSE MapSeq(SelectSeq(storeRows, LAMBDA r : StoreTextMatch(r, query)),
                LAMBDA r : StorePaper(r, HybridLexicalScore))

C11_NoFilterKeepsAll ==
    (Finished /\ op = "hybrid"
        /\ (metadata_filters.isNone \/ DOMAIN metadata_filters.d = {})) =>
        /\ outcome = "returned"
        /\ Len(result) = Len(HybridCandidates)
        /\ \A i \in 1..Len(result) : result[i] = HybridCandidates[i]

\* an empty mapping, the final fallback, and three records kept
C11_Witness ==
    /\ Finished /\ op = "hybrid" /\ outcome = "returned"
    /\ ~metadata_filters.isNone /\ DOMAIN metadata_filters.d = {}
    /\ Last(attempts).via = "plain"
    /\ Len(HybridCandidates) = 3 /\ Len(result) = 3

(***************************************************************************)
(* C12.  Plain search returns at most limit records, whichever tier        *)
(* produced them, in the order of that tier: the order of the backend's    *)
(* rows, or the rank order of the sample data.                             *)
(***************************************************************************)
\* position of the row with this identifier in a table
RowIndex(rows, id) == CHOOSE k \in 1..Len(rows) : rows[k].entry_id = id

C12_LimitAndOrder ==
    (Finished /\ op = "plain") =>
        /\ outcome = "returned"
        /\ Len(result) <= limit
        /\ fetched.tier = "primary" =>
             \A i \in 1..Len(result) : result[i].entry_id = kbRows[i].entry_id
        /\ fetched.tier = "secondary" =>
             /\ \A i \in 1..Len(result) :
                   \E k \in 1..Len(storeRows) : storeRows[k].entry_id = result[i].entry_id
             /\ \A i, j \in 1..Len(result) :
                   i < j => RowIndex(storeRows, result[i].entry_id)
                              < RowIndex(storeRows, result[j].entry_id)
        /\ fetched.tier = "tertiary" =>
             \A i \in 1..Len(result) : result[i].entry_id = SamplePrefix \o IntToStr(i)

\* the knowledge base holds three rows and the caller asked for two
C12_Witness ==
    /\ Finished /\ op = "plain" /\ fetched.tier = "primary"
    /\ Len(kbRows) = 3 /\ limit = 2 /\ Len(result) = 2

(***************************************************************************)
(* C14.  Every record returned by a search operation, from any tier, has   *)
(* a relevance_score within [0, 1].                                        *)
(***************************************************************************)
C14_ScoreInRange ==
    (Finished /\ op \in {"plain", "semantic", "hybrid"} /\ outcome = "returned") =>
        \A i \in 1..Len(result) :
            /\ result[i].relevance_score >= 0
            /\ result[i].relevance_score <= ScoreUnit

\* a record whose distance 2.6 is beyond the normalization range is returned
C14_Witness ==
    /\ Finished /\ op = "plain" /\ outcome = "returned"
    /\ fetched.tier = "primary"
    /\ \E i \in 1..Len(result) :
          /\ fetched.rows[i].distance > 2 * ScoreUnit
          /\ result[i].relevance_score = 0

(***************************************************************************)
(* C16 as written.  Every record produced by the secondary tier carries    *)
(* one and the same constant, whichever operation invoked the tier.        *)
(***************************************************************************)
C16_OneLexicalConstant ==
    (Finished /\ outcome = "returned" /\ fetched.tier = "secondary") =>
        \A i \in 1..Len(result) : result[i].relevance_score = LexicalScore

(***************************************************************************)
(* C16 amended.  The score of a secondary-tier record depends on neither   *)
(* the record nor the query, only on the function that queried the store:  *)
(* 0.75 from _query_papers_sync (plain search and the fallbacks of         *)
(* semantic and hybrid search), 0.85 from hybrid search's own attempt.     *)
(***************************************************************************)
C16_LexicalConstantPerFunction ==
    (Finished /\ outcome = "returned" /\ fetched.tier = "secondary") =>
        \A i \in 1..Len(result) :
            result[i].relevance_score =
                IF Last(attempts).via = "hybrid" THEN HybridLexicalScore
                ELSE LexicalScore

\* hybrid search's own store attempt returned two records
C16_Witness ==
    /\ Finished /\ op = "hybrid" /\ outcome = "returned"
    /\ fetched.tier = "secondary" /\ Last(attempts).via = "hybrid"
    /\ Len(result) = 2
    /\ result[1].relevance_score = HybridLexicalScore


LookupDone == Finished /\ op = "lookup"
InStore(id) == \E i \in 1..Len(storeRows) : storeRows[i].entry_id = id
\* the identifiers of the sample records of the tertiary tier
SampleIds == { SamplePrefix \o IntToStr(i) : i \in 1..(SampleStop - 1) }

C18_SameIdentifier ==
    (LookupDone /\ paper # <<>>) => paper[1].entry_id = entry_id

\* a record was read from a store that holds other records as well
C18_Witness ==
    /\ LookupDone /\ paper # <<>>
    /\ Last(attempts).ok
    /\ Len(storeRows) > 1

(***************************************************************************)
(* C19.  get_paper_by_id returns a sample record only for an identifier    *)
(* that the tertiary tier gives to its sample records ("arxiv-sample-1"    *)
(* to "arxiv-sample-5"); any other identifier not read from the store      *)
(* yields None.                                                            *)
(***************************************************************************)
C19_SampleOnlyForSampleIds ==
    (LookupDone /\ ~Last(attempts).ok /\ entry_id \notin SampleIds)
        => paper = <<>>

(***************************************************************************)
(* C20.  For a query that is empty or whitespace only, a core search       *)
(* operation fails with an invalid-query error and attempts no tier.       *)
(***************************************************************************)
C20_BlankRejected ==
    (op \in {"plain", "semantic", "hybrid"} /\ IsBlank(query))
        => (attempts = <<>> /\ (Finished => outcome = "raised"))

Responded == pc = "responded"

(***************************************************************************)
(* C13.  A successful response of the hybrid search endpoint holds at most *)
(* limit records: the first min(limit, n) of the n records that the core   *)
(* hybrid search returned, in the same order.                              *)
(***************************************************************************)
C13_HybridTruncation ==
    (Responded /\ op = "hybrid" /\ response.status = 200) =>
        /\ Len(response.results) <= limit
        /\ Len(response.results) = Min(limit, Len(result))
        /\ \A i \in 1..Len(response.results) :
              /\ response.results[i].entry_id = result[i].entry_id
              /\ response.results[i].relevance_score = <<result[i].relevance_score>>

\* a successful response that left records of the core result out
C13_Witness ==
    /\ Responded /\ op = "hybrid" /\ response.status = 200
    /\ Len(result) > limit
    /\ Len(response.results) = limit

Converted == pc = "converted"
Twice(n) == 2 * n

(***************************************************************************)
(* C15.  The primary tier maps a distance d to clamp(1 - d/2, 0, 1): the   *)
(* relevance lies in [0, 1], is 1 for d <= 0 and 0 for d >= 2, never       *)
(* increases with d and strictly decreases on 0 <= d <= 2; a distance      *)
(* outside [0, 2] is clamped and its row is kept.                          *)
(***************************************************************************)
C15_NormalizeClamp ==
    Converted =>
        /\ Len(results) = Len(kbRows)
        /\ \A i \in 1..Len(results) :
              LET d == kbRows[i].distance
                  r == results[i].relevance_score
              IN  /\ r \in 0..ScoreUnit
                  /\ d <= 0 => r = ScoreUnit
                  /\ d >= Twice(ScoreUnit) => r = 0
                  /\ d \in 0..Twice(ScoreUnit) => Twice(r) = Twice(ScoreUnit) - d
        /\ \A i, j \in 1..Len(results) :
              LET di == kbRows[i].distance
                  dj == kbRows[j].distance
                  ri == results[i].relevance_score
                  rj == results[j].relevance_score
              IN  /\ di <= dj => ri >= rj
                  /\ (0 <= di /\ di < dj /\ dj <= Twice(ScoreUnit)) => ri > rj

\* a distance below 0 and a distance above 2 were converted
C15_Witness ==
    /\ Converted
    /\ kbRows[1].distance < 0 /\ results[1].relevance_score = ScoreUnit
    /\ kbRows[2].distance > Twice(ScoreUnit) /\ results[2].relevance_score = 0

SearchOp == op \in {"plain", "semantic", "hybrid"}
\* the limit of the request body is one the request model accepts
LimitAccepted == op = "semantic" \/ limit >= MIN_SEARCH_LIMIT

Trying ==
    pc \in {"plain_primary", "plain_secondary", "plain_tertiary",
            "semantic_primary", "hybrid_primary", "hybrid_secondary"}
\* the record p was built by the attempt that won, from one of its rows
FromWinningAttempt(p) ==
    CASE fetched.tier = "tertiary" -> IsSample(p)
      [] fetched.tier = "secondary" ->
            /\ ~IsSample(p)
            /\ \E j \in 1..Len(fetched.rows) : fetched.rows[j].entry_id = p.entry_id
            /\ p.relevance_score =
                  (IF Last(attempts).via = "hybrid" THEN HybridLexicalScore
                   ELSE LexicalScore)
      [] fetched.tier = "primary" ->
            /\ ~IsSample(p)
            /\ \E j \in 1..Len(fetched.rows) :
                  /\ fetched.rows[j].entry_id = p.entry_id
                  /\ p.relevance_score =
                        Max(0, Min(ScoreUnit, ScoreUnit - (fetched.rows[j].distance \div 2)))
      [] OTHER -> FALSE

(***************************************************************************)
(* C22.  The result of a search request holds records of one tier attempt  *)
(* only, the attempt that succeeded last: records of two tiers are never   *)
(* mixed, and while tiers are still being tried nothing built by a failed  *)
(* attempt has been kept.                                                  *)
(***************************************************************************)
C22_OneTierOnly ==
    /\ (Finished /\ SearchOp /\ outcome = "returned") =>
          /\ Last(attempts).ok
          /\ fetched.tier = Last(attempts).tier
          /\ \A i \in 1..Len(result) : FromWinningAttempt(result[i])
    /\ Trying => (result = <<>> /\ results = <<>>)

\* the primary loop of hybrid search kept its first row and raised on a
\* later one; the filtered text search then answered
C22_Witness ==
    /\ Finished /\ op = "hybrid" /\ outcome = "returned"
    /\ Len(attempts) = 2 /\ ~attempts[1].ok /\ attempts[2].ok
    /\ kbRows # <<>>
    /\ ~KbYearRaises(kbRows[1], metadata_filters)
    /\ KbKeep(kbRows[1], metadata_filters)
    /\ KbLoopRaises(kbRows, metadata_filters)
    /\ result # <<>>

RealBackendAttempts ==
    {i \in 1..Len(attempts) : attempts[i].tier \in {"primary", "secondary"}}

(***************************************************************************)
(* C23.  A search result holds a sample record only if the request tried   *)
(* the knowledge base and the store and every one of these attempts        *)
(* failed; after a successful attempt on a real backend the result holds   *)
(* no sample record.                                                       *)
(***************************************************************************)
C23_SamplesOnlyAfterAllFailed ==
    (Finished /\ SearchOp /\ \E i \in 1..Len(result) : IsSample(result[i])) =>
        /\ \A i \in RealBackendAttempts : ~attempts[i].ok
        /\ \E i \in RealBackendAttempts : attempts[i].tier = "primary"
        /\ \E i \in RealBackendAttempts : attempts[i].tier = "secondary"

\* hybrid search returned sample records after four failed attempts
C23_Witness ==
    /\ Finished /\ op = "hybrid" /\ outcome = "returned"
    /\ Len(attempts) = 5
    /\ result # <<>> /\ IsSample(result[1])

Evaluated == pc = "evaluated"

(***************************************************************************)
(* C24.  For one candidate record and one filter set the primary loop, the *)
(* predicates of the SQL statement and the final post-filter of hybrid     *)
(* search all decide alike, keep or discard.                               *)
(***************************************************************************)
C24_SameDecision ==
    Evaluated =>
        /\ decisions.primary = decisions.secondary
        /\ decisions.secondary = decisions.fallback

(***************************************************************************)
(* C25.  Every search request that is trying its tiers eventually returns  *)
(* a result, provided every backend call returns or fails.                 *)
(***************************************************************************)
C25_EventuallyReturns ==
    (Trying /\ SearchOp) ~> (Finished /\ outcome = "returned")

\* (every request comes to its end, by returning or by raising)
EventuallyFinished == (Trying /\ SearchOp) ~> Finished

\* what a request with the locals th returns when it runs alone and its
\* attempts have the outcomes of th.attempts
AloneResult(th) ==
    LET last == th.attempts[Len(th.attempts)]
    IN  CASE last.tier = "primary" ->
                [i \in 1..Min(th.limit, Len(kbRows)) |-> KbPaper(kbRows[i])]
          [] last.tier = "secondary" ->
                MapSeq(StoreSelect(storeRows, th.query, th.limit),
                       LAMBDA r : StorePaper(r, LexicalScore))
          [] last.tier = "tertiary" -> SamplePapers(th.query, th.limit)
AlonePaper(th) ==
    LET last == th.attempts[Len(th.attempts)]
        rows == StoreLookup(storeRows, th.entry_id)
    IN  IF last.ok THEN (IF Len(rows) > 0 THEN <<LookupPaper(rows[1])>> ELSE <<>>)
        ELSE LookupFallback(th.entry_id)

(***************************************************************************)
(* C26.  However the steps of concurrent search and lookup requests        *)
(* interleave, what a request returns is what it returns when it runs      *)
(* alone with the same arguments and the same outcomes of its own          *)
(* attempts, and a step of one request changes nothing but that request's  *)
(* locals.                                                                 *)
(***************************************************************************)
ReturnsAsAlone ==
    \A t \in Threads :
        threads[t].pc = "done" =>
            /\ threads[t].op = "plain" =>
                  /\ threads[t].result = AloneResult(threads[t])
                  /\ threads[t].paper = <<>>
            /\ threads[t].op = "lookup" =>
                  /\ threads[t].paper = AlonePaper(threads[t])
                  /\ threads[t].result = <<>>
OneThreadPerStep ==
    \A t \in Threads :
        threads'[t] # threads[t] =>
            \A u \in Threads \ {t} : threads'[u] = threads[u]
C26_NoInterference == []ReturnsAsAlone /\ [][OneThreadPerStep]_vars

\* a search has returned while another search with another limit is between
\* two of its attempts
C26_Witness ==
    /\ threads[2].pc = "done" /\ threads[2].op = "plain"
    /\ threads[2].result # <<>>
    /\ threads[1].pc = "plain_secondary"
    /\ threads[1].limit # threads[2].limit

(***************************************************************************)
(* C27.  get_paper_by_id makes exactly one attempt, on the store, and none *)
(* on the knowledge base, whether the store answers or fails.              *)
(***************************************************************************)
C27_StoreOnlyOnce ==
    /\ op = "lookup" => \A i \in 1..Len(attempts) : attempts[i].tier = "secondary"
    /\ LookupDone => Len(attempts) = 1

\* the store failed and the lookup ended with its sample record, the
\* knowledge base never asked
C27_Witness ==
    /\ LookupDone
    /\ ~Last(attempts).ok
    /\ paper # <<>>
    /\ kbRows # <<>>

(***************************************************************************)
(* C28.  Threshold-filtered search returns at most 50 records, whichever   *)
(* tier its records come from.                                             *)
(***************************************************************************)
C28_SemanticCap ==
    (Finished /\ op = "semantic") => Len(result) <= InternalCap

\* the knowledge base held more than 50 rows above the threshold and
\* exactly 50 records were returned
C28_Witness ==
    /\ Finished /\ op = "semantic"
    /\ fetched.tier = "primary" /\ Len(attempts) = 1
    /\ Len(kbRows) > InternalCap
    /\ Len(result) = InternalCap

\* the text q occurs in the title, the summary or the categories of the row,
\* letter case aside
LiteralMatch(row, q) ==
    \/ Contains(Lower(q), Lower(row.title))
    \/ Contains(Lower(q), Lower(row.summary))
    \/ Contains(Lower(q), Lower(row.categories))

(***************************************************************************)
(* C29.  The text search of the store returns a stored record if and only  *)
(* if the query text occurs, letter case aside, as a literal substring of  *)
(* its title, summary or categories (the store holding no more rows than   *)
(* the LIMIT of the statement).                                            *)
(***************************************************************************)
C29_LiteralSubstring ==
    (Finished /\ SearchOp /\ fetched.tier = "secondary"
        /\ Last(attempts).via = "plain" /\ Len(storeRows) <= PlainLimit) =>
        \A j \in 1..Len(storeRows) :
            (\E i \in 1..Len(fetched.rows) :
                  fetched.rows[i].entry_id = storeRows[j].entry_id)
              <=> LiteralMatch(storeRows[j], query)

\* the record is the sample record of the lookup
IsLookupSample(p) ==
    StartsWith(p.title, <<"S", "a", "m", "p", "l", "e", " ", "P", "a", "p", "e", "r", " ",
                          "f", "o", "r", " ">>)

(***************************************************************************)
(* C30.  When the store answers, get_paper_by_id returns the record the    *)
(* store holds under the identifier, or None when it holds none, also for  *)
(* an identifier that begins with "arxiv-"; a sample record is returned    *)
(* only when the access to the store failed.                               *)
(***************************************************************************)
C30_SampleOnlyOnFailure ==
    LookupDone =>
        /\ Last(attempts).ok =>
              IF InStore(entry_id)
              THEN /\ paper # <<>>
                   /\ ~IsLookupSample(paper[1])
                   /\ \E j \in 1..Len(storeRows) :
                         /\ storeRows[j].entry_id = entry_id
                         /\ storeRows[j].title = paper[1].title
                         /\ storeRows[j].authors = paper[1].authors
              ELSE paper = <<>>
        /\ (paper # <<>> /\ IsLookupSample(paper[1])) => ~Last(attempts).ok

\* the store answered that it holds nothing under an "arxiv-" identifier
C30_Witness ==
    /\ LookupDone
    /\ Last(attempts).ok
    /\ StartsWith(entry_id, LookupPrefix)
    /\ storeRows # <<>>
    /\ paper = <<>>

\* semantic search ended with the text search of the store as its winning tier
SecondaryWonSemantic ==
    /\ Finished /\ op = "semantic"
    /\ Last(attempts).tier = "secondary" /\ Last(attempts).ok

(***************************************************************************)
(* C31.  When semantic_search is answered by the text search of the store  *)
(* (the knowledge base failed), every attempt before it was a failed       *)
(* knowledge-base attempt, the sample data was never tried, and the result *)
(* is all or nothing: every record the store returned, in the store's      *)
(* order and with relevance_score 0.75, when threshold <= 0.75, and the    *)
(* empty list when threshold > 0.75.                                       *)
(***************************************************************************)
C31_AllOrNothing ==
    SecondaryWonSemantic =>
        /\ outcome = "returned"
        /\ Count("tertiary") = 0
        /\ \A i \in 1..(Len(attempts) - 1) :
              attempts[i].tier = "primary" /\ ~attempts[i].ok
        /\ fetched.tier = "secondary"
        /\ IF threshold <= LexicalScore
           THEN /\ Len(result) = Len(fetched.rows)
                /\ \A i \in 1..Len(result) :
                      /\ result[i].entry_id = fetched.rows[i].entry_id
                      /\ result[i].title = fetched.rows[i].title
                      /\ result[i].relevance_score = LexicalScore
           ELSE result = <<>>

\* the store answered with records and a threshold above 0.75 left none
C31_Witness ==
    /\ SecondaryWonSemantic
    /\ fetched.rows # <<>>
    /\ threshold > LexicalScore
    /\ threshold <= SampleBase - SampleStep
    /\ result = <<>>

====
